---- MODULE Spec2Model ----
(***************************************************************************)
(* Model of the command codec of the VISCA repository.                     *)
(*                                                                         *)
(* The repository has two Command classes, Commands.Command and           *)
(* catlitter.CommandLoader.Command, each with its own Field class.  A      *)
(* Command is a dict of Field objects keyed by positional index.  Field    *)
(* objects live on a heap (objs); the Command refers to them by identity,  *)
(* as the Python code does.  cls is the class of the Command object.       *)
(***************************************************************************)
EXTENDS Integers, Sequences, FiniteSets, TLC

\* ------------------------------------------------------------------------
\* Bounds
\* ------------------------------------------------------------------------
MaxObjs == 2        \* Field objects constructed on their own (SpecField)
MaxFields == 2      \* add_field calls on the Command in one behaviour (Spec)
MaxChecksums == 1   \* checksum computations on the Command in one behaviour
MaxCrcLen == 3      \* bytes in one crc16 input (SpecCrc)
MaxVisits == 4      \* Fields yielded by one for loop over a Command (SpecLoop)

\* ------------------------------------------------------------------------
\* Python values
\* ------------------------------------------------------------------------
\* Optional[x]: None is the empty tuple, a present value x is <<x>>.
None == <<>>
Some(x) == <<x>>

\* Truth value of an Optional[int] in `if self.min:` / `if index:`
\* (None and 0 are both false).
Truthy(opt) == opt # None /\ opt[1] # 0

\* Truth value of an Optional[str] in `if name:` (None and "" are false).
TruthyName(opt) == opt # None /\ opt[1] # ""

\* Truth value of an Optional[list] in `if load:` / `if self.load:`
\* (None and [] are false).
TruthyList(l) == l # None /\ Len(l[1]) > 0

\* value in load, for a truthy load
InList(v, l) == \E i \in 1..Len(l[1]) : l[1][i] = v

\* 2^n
Pow2(n) == IF n <= 0 THEN 1 ELSE 2 ^ n

\* ------------------------------------------------------------------------
\* Inputs
\* ------------------------------------------------------------------------
Names == {"A", "B"}

\* Arguments of Field(...) used by callers: name, load, min, max, size and
\* the optional explicit initial value (value = None: keyword not passed).
FieldArgs ==
  { [name |-> "A", load |-> Some(<<86, 0, 1, 3, 4>>), min |-> None, max |-> None,
     size |-> 13, value |-> None],
    [name |-> "A", load |-> None, min |-> Some(0), max |-> Some(3),
     size |-> 8, value |-> None],
    [name |-> "B", load |-> None, min |-> Some(-1), max |-> Some(0),
     size |-> 16, value |-> None],
    [name |-> "B", load |-> None, min |-> None, max |-> None,
     size |-> 3, value |-> Some(2)],
    [name |-> "B", load |-> Some(<<0, 2>>), min |-> Some(1), max |-> None,
     size |-> 8, value |-> None] }

\* Field dictionaries of the schema handed to CommandLoader.Field(name,
\* field_dict); a key that the dictionary lacks reads as None.
CLFieldArgs ==
  { [name |-> "A", load |-> Some(<<36>>), min |-> None, max |-> None,
     size |-> 8],
    [name |-> "A", load |-> None, min |-> None, max |-> None, size |-> 3],
    [name |-> "B", load |-> None, min |-> Some(1), max |-> Some(3),
     size |-> 8],
    [name |-> "B", load |-> None, min |-> None, max |-> None, size |-> 16],
    [name |-> "B", load |-> None, min |-> None, max |-> None, size |-> -1] }

\* The Fields handed to Command.add_field: the 13-bit and the 3-bit Field,
\* which share two bytes, the 16-bit Field, and the one whose constructor
\* raises.
CmdFieldArgs == {a \in FieldArgs : a.size # 8 \/ a.load # None}

\* The schema entries handed to CommandLoader's Command.add_field: those
\* without bounds (set_load stores the value whatever the bounds are).
CLCmdFieldArgs == {a \in CLFieldArgs : a.min = None}

\* Values passed to set_val / set_field.  isint is isinstance(value, int);
\* a value with isint = FALSE is the float of the same numeric value (1.0),
\* which compares with ints as the number does.
InputNums == {-2, -1, 0, 1, 2, 9}
Inputs == [num : InputNums, isint : {TRUE}] \cup [num : {1}, isint : {FALSE}]

\* The value passed to Command.set_field: 9 is outside the load list, too
\* wide for 3 bits, and fits 13 and 16 bits.
CmdInputs == [num : {9}, isint : {TRUE}]

\* Values passed to CommandLoader's Command.set_parameter.
CLInputs == {1, 300}

IntInput(n) == [num |-> n, isint |-> TRUE]

\* ------------------------------------------------------------------------
\* State
\* ------------------------------------------------------------------------
VARIABLES
  cls,          \* class of the Command object
  objs,         \* heap of Field objects: objs[id] is the Field with identity id
  fields,       \* Command.fields: dict positional index -> Field identity
  next_index,   \* Command.next_index
  iter_index,   \* Command._iter_index (-1: attribute not created yet)
  raw,          \* CommandLoader.Command.raw (None until update() succeeds)
  checksums,    \* history: number of checksum computations so far
  added,        \* history: identities of the Fields added, in call order
  last,         \* the last call: operation, arguments, exception, result
  schema,       \* CommandLoader: the loaded YAML data (None: no loader)
  other,        \* the Command built before the current one (None: none)
  vreg,         \* VirtualRegister: bytes and parameters (None: none made)
  port,         \* CommunicationInterface: "closed" or "open"
  trace,        \* history: interface operations of the last execute_command
  visited       \* history: positions yielded by the running for loop over
                \* the Command (None: no loop running)

\* The state outside the Command and its Fields.
ext == <<schema, other, vreg, port, trace, visited>>

vars == <<cls, objs, fields, next_index, iter_index, raw, checksums, added,
          last, ext>>

Ids == 1..Len(objs)

\* len(self.fields)
NumFields == Cardinality(DOMAIN fields)

\* len(self) of a Command: __len__ returns next_index
CommandLen == next_index

\* Record of a call.  exc = "None": the call returned; ret: what it returned.
Call(op, args, exc, logged, ret) ==
  [op |-> op, args |-> args, exc |-> exc, logged |-> logged, ret |-> ret]

\* ------------------------------------------------------------------------
\* Commands.py: Field
\* ------------------------------------------------------------------------
\* Result of a Field method: the exception raised ("None": returned), whether
\* logger.error was called, and the Field afterwards.
FieldResult(exc, logged, f) == [exc |-> exc, logged |-> logged, f |-> f]

\* Field.set_val(value).  The min and max assertions run only when the bound
\* is truthy; the load assertion is caught by the bare except, which logs and
\* falls through to the assignment; a non-int value is logged and not stored.
set_val(f, x) ==
  IF Truthy(f.min) /\ ~(x.num >= f.min[1])
    THEN FieldResult("AssertionError", FALSE, f)
  ELSE IF Truthy(f.max) /\ ~(x.num <= f.max[1])
    THEN FieldResult("AssertionError", FALSE, f)
  ELSE LET loadErr == TruthyList(f.load) /\ ~InList(x.num, f.load)
       IN IF x.isint
            THEN FieldResult("None", loadErr, [f EXCEPT !.value = x.num])
            ELSE FieldResult("None", TRUE, f)

\* Mutant of FieldInit: the constructor ignores load and keeps value.
FieldInitNoDefault(a) ==
  FieldResult("None", FALSE,
    [name |-> a.name, value |-> IF a.value = None THEN 0 ELSE a.value[1],
     load |-> a.load, min |-> a.min, max |-> a.max, size |-> a.size])

\* Field.__init__(name, load, min, max, size, help_str, value=0): stores the
\* attributes, then, when load is non-empty, calls set_val(load[0]).
FieldInit(a) ==
  LET f0 == [name |-> a.name,
             value |-> IF a.value = None THEN 0 ELSE a.value[1],
             load |-> a.load, min |-> a.min, max |-> a.max, size |-> a.size]
  IN IF TruthyList(a.load)
       THEN set_val(f0, IntInput(a.load[1][1]))
       ELSE FieldResult("None", FALSE, f0)

\* Mutant of ToBits: least significant bit first.
ToBitsLsbFirst(v, n) == [i \in 1..n |-> (v \div Pow2(i - 1)) % 2]

\* Bits(uint=v, length=n) of the bitstring library for 0 <= v < 2^n: the n
\* bits of v, most significant bit first.
ToBits(v, n) == [i \in 1..n |-> (v \div Pow2(n - i)) % 2]

\* Field.get_raw(): Bits(uint=self.value, length=self.size); the library
\* raises CreationError when the value is negative or needs more than
\* `size` bits.
FieldRaw(f) ==
  IF f.value < 0 \/ f.value >= Pow2(f.size)
    THEN [exc |-> "CreationError", bits |-> <<>>]
    ELSE [exc |-> "None", bits |-> ToBits(f.value, f.size)]

\* Unsigned value of a bit sequence read most significant bit first.
RECURSIVE BitsToUint(_)
BitsToUint(b) ==
  IF Len(b) = 0 THEN 0
  ELSE 2 * BitsToUint(SubSeq(b, 1, Len(b) - 1)) + b[Len(b)]

\* Field.__init__(name, field_dict): value = 0, then load[0] when load is
\* truthy.
CLFieldInit(a) ==
  [name |-> a.name,
   value |-> IF TruthyList(a.load) THEN a.load[1][1] ELSE 0,
   load |-> a.load, min |-> a.min, max |-> a.max, size |-> a.size]

\* Field.set_load(value): the range test only selects between two
\* assignments of value; the raise after the second return is unreachable.
set_load(f, x) ==
  IF Truthy(f.min) /\ Truthy(f.max) /\ f.min[1] <= x /\ x <= f.max[1]
    THEN [f EXCEPT !.value = x]
    ELSE [f EXCEPT !.value = x]

\* ------------------------------------------------------------------------
\* Commands.py: Command
\* ------------------------------------------------------------------------
\* Name of the Field at positional index i.
NameAt(i) == objs[fields[i]].name

\* The loop `for field in self: if field.get_name() == name: return field`
\* from position i on: __next__ yields self.fields[_iter_index] while
\* _iter_index < len(self.fields).  Result: the index of the match, or -1.
RECURSIVE ScanFrom(_, _)
ScanFrom(name, i) ==
  IF i < NumFields
    THEN IF NameAt(i) = name THEN i ELSE ScanFrom(name, i + 1)
    ELSE -1

\* By-name scan of get_field: __iter__ resets _iter_index to 0.
Scan(name) == ScanFrom(name, 0)

\* Result of a Command lookup: exception, logger.error called, the Field
\* identity returned (None: the method returned None), _iter_index after.
LookupResult(exc, logged, ret, it) ==
  [exc |-> exc, logged |-> logged, ret |-> ret, it |-> it]

\* Command.get_field(name=None, index=None).  index is used when truthy
\* (a missing key raises KeyError); otherwise name is used when truthy;
\* otherwise, and when no name matches, the error is logged and the method
\* returns None.
get_field(name, index) ==
  IF Truthy(index)
    THEN IF index[1] \in DOMAIN fields
           THEN LookupResult("None", FALSE, Some(fields[index[1]]), iter_index)
           ELSE LookupResult("KeyError", FALSE, None, iter_index)
  ELSE IF TruthyName(name)
    THEN LET m == Scan(name[1])
         IN IF m # -1
              THEN LookupResult("None", FALSE, Some(fields[m]), m + 1)
              ELSE LookupResult("None", TRUE, None, NumFields)
  ELSE LookupResult("None", TRUE, None, iter_index)

\* Command.__getitem__(item): get_field(item), so item is bound to `name`.
\* An int item equals no field name: 0 is falsy and skips the scan, any
\* other int scans all fields without a match.
getitem_int(i) ==
  IF i # 0
    THEN LookupResult("None", TRUE, None, NumFields)
    ELSE LookupResult("None", TRUE, None, iter_index)

getitem_str(s) == get_field(Some(s), None)

\* sum(...) of a sequence of ints
RECURSIVE SumSeq(_)
SumSeq(q) == IF Len(q) = 0 THEN 0 ELSE q[1] + SumSeq(Tail(q))

\* Mutant of Concat: the later elements come first.
RECURSIVE ConcatReversed(_)
ConcatReversed(q) ==
  IF Len(q) = 0 THEN <<>> ELSE ConcatReversed(Tail(q)) \o q[1]

\* Concatenation of a sequence of sequences
RECURSIVE Concat(_)
Concat(q) == IF Len(q) = 0 THEN <<>> ELSE q[1] \o Concat(Tail(q))

\* [field for field in self]: the identities self.fields[0], self.fields[1],
\* ... while _iter_index < len(self.fields).
FieldList == [k \in 1..NumFields |-> fields[k - 1]]

\* Position of a slice bound in a list of length n: a negative bound counts
\* from the end, and the result is clamped to 0..n.
SliceBound(b, n) ==
  IF b < 0 THEN (IF b + n < 0 THEN 0 ELSE b + n)
  ELSE (IF b > n THEN n ELSE b)

\* l[a:b] of a Python list
PySlice(l, a, b) ==
  LET lo == SliceBound(a, Len(l))
      hi == SliceBound(b, Len(l))
  IN IF lo < hi THEN SubSeq(l, lo + 1, hi) ELSE <<>>

\* Bits.tobytes() pads the bit string with zero bits up to a byte boundary.
Pad8(bits) ==
  bits \o [k \in 1..((8 - (Len(bits) % 8)) % 8) |-> 0]

\* Bits.tobytes(): every 8 consecutive bits form one byte, msb first.
ToBytes(bits) ==
  LET Pack(p) ==
        [k \in 1..(Len(p) \div 8) |-> BitsToUint(SubSeq(p, 8 * k - 7, 8 * k))]
  IN Pack(Pad8(bits))

\* Command.get_raw(start_index=0, end_index=None).  Result: exception,
\* bytes returned, _iter_index afterwards.
get_raw(start_index, end_index) ==
  IF ~(CommandLen > 0)
    THEN [exc |-> "AssertionError", ret |-> <<>>, it |-> iter_index]
  ELSE
    LET e == IF Truthy(end_index) THEN end_index[1] ELSE CommandLen
        Pack(raws) ==
          IF \E k \in 1..Len(raws) : raws[k].exc # "None"
            THEN [exc |-> "CreationError", ret |-> <<>>, it |-> NumFields]
          ELSE IF Len(raws) = 0
            THEN [exc |-> "ValueError", ret |-> <<>>, it |-> NumFields]
          ELSE [exc |-> "None",
                ret |-> ToBytes(Concat([k \in 1..Len(raws) |-> raws[k].bits])),
                it |-> NumFields]
        Raws(fs) == Pack([k \in 1..Len(fs) |-> FieldRaw(objs[fs[k]])])
    IN Raws(PySlice(FieldList, start_index, e + 1))

\* Command.get_size(): sum of field.size over the iteration.
get_size == SumSeq([k \in 1..NumFields |-> objs[fields[k - 1]].size])

\* a ^ b on non-negative ints
RECURSIVE Xor(_, _)
Xor(a, b) ==
  IF a = 0 THEN b
  ELSE IF b = 0 THEN a
  ELSE 2 * Xor(a \div 2, b \div 2) + (((a % 2) + (b % 2)) % 2)

\* polynom = 0x8005
Polynom == 32773

\* One pass of the inner loop of crc16_calculate for bit shift_register of
\* the byte: the register is shifted left within 16 bits and XORed with the
\* polynomial when the data bit differs from the register's old bit 15.
CrcBit(reg, byte, shift_register) ==
  LET data_bit == (byte \div Pow2(shift_register)) % 2
      crc_bit == (reg \div 32768) % 2
      shifted == (reg * 2) % 65536
  IN IF data_bit # crc_bit THEN Xor(shifted, Polynom) % 65536 ELSE shifted

\* The inner loop from bit shift_register on.  (Binding the new register
\* through a singleton set makes TLC compute it before the next round.)
RECURSIVE CrcByte(_, _, _)
CrcByte(reg, byte, shift_register) ==
  IF shift_register = 8 THEN reg
  ELSE CHOOSE r \in {CrcByte(v, byte, shift_register + 1) :
                        v \in {CrcBit(reg, byte, shift_register)}} : TRUE

\* The outer loop: bytes data[counter] for counter in range(length), from
\* position c (1-based) on.
RECURSIVE CrcRegister(_, _, _, _)
CrcRegister(reg, data, c, length) ==
  IF c > length THEN reg
  ELSE CHOOSE r \in {CrcRegister(v, data, c + 1, length) :
                        v \in {CrcByte(reg, data[c], 0)}} : TRUE

\* Mutant of CrcValue: the register itself, high byte first.
CrcValueNoSwap(reg) == reg

\* int.from_bytes(bytes(crc), "big") with crc[0] = register & 0xFF and
\* crc[1] = (register >> 8) & 0xFF.
CrcValue(reg) == (reg % 256) * 256 + ((reg \div 256) % 256)

\* l[i] of a Python list: the position (1-based) or 0 for IndexError.
PyIndex(i, n) ==
  IF 0 <= i /\ i < n THEN i + 1
  ELSE IF i < 0 /\ i + n >= 0 THEN i + n + 1
  ELSE 0

\* Command.crc16_calculate(start_index, stop_index, target_index).  Result:
\* exception, the Field written (None: none), the value written,
\* _iter_index afterwards.
crc16_calculate(start_index, stop_index, target_index) ==
  LET Store(g, v) ==
        LET Done(r) == [exc |-> r.exc, id |-> g.ret, value |-> v, it |-> g.it]
        IN Done(set_val(objs[g.ret[1]], IntInput(v)))
      Compute(size, data, t) ==
        IF data.exc # "None"
          THEN [exc |-> data.exc, id |-> None, value |-> 0, it |-> data.it]
        ELSE IF t = 0
          THEN [exc |-> "IndexError", id |-> None, value |-> 0,
                it |-> NumFields]
        ELSE Store(get_field(Some(objs[FieldList[t]].name), None),
                   CrcValue(CrcRegister(0, data.ret, 1, size \div 8)))
      Check(size) ==
        IF size % 8 # 0
          THEN [exc |-> "AssertionError", id |-> None, value |-> 0,
                it |-> NumFields]
          ELSE Compute(size, get_raw(start_index, Some(stop_index)),
                       PyIndex(target_index, Len(FieldList)))
      Sizes(fs) == Check(SumSeq([k \in 1..Len(fs) |-> objs[fs[k]].size]))
  IN Sizes(PySlice(FieldList, start_index, stop_index + 1))

\* ------------------------------------------------------------------------
\* catlitter/CommandLoader.py: Command
\* ------------------------------------------------------------------------
\* The loop `for field in self.fields.values(): if field.name == name` of
\* set_parameter, get_parameter and __getitem__: dict values come in
\* insertion order, which is the order of the keys 0, 1, ...  Result: the
\* index of the first match, or -1.
RECURSIVE CLScanFrom(_, _)
CLScanFrom(name, i) ==
  IF i < NumFields
    THEN IF NameAt(i) = name THEN i ELSE CLScanFrom(name, i + 1)
    ELSE -1

CLScan(name) == CLScanFrom(name, 0)

\* int.to_bytes(n, byteorder='big'): the n bytes of v, most significant
\* first, for 0 <= v < 256^n.
IntToBytes(v, n) == [k \in 1..n |-> (v \div Pow2(8 * (n - k))) % 256]

\* bytes.hex(): two hex digits per byte, high digit first.
Hex(bytes) ==
  [k \in 1..(2 * Len(bytes)) |->
     IF k % 2 = 1 THEN bytes[(k + 1) \div 2] \div 16
                  ELSE bytes[k \div 2] % 16]

\* The loop body shared by update() and calculate_checksum() for the fields
\* fs[i], ..., fs[stop], on heap h with raw_data collected so far: a size
\* of -1 raises ValueError, a Field whose load is None has its value set
\* to 0, and to_bytes raises OverflowError for a value that is negative or
\* does not fit (size + 7) // 8 bytes.  Result: exception, heap, raw_data.
RECURSIVE CLCollect(_, _, _, _, _)
CLCollect(fs, i, stop, h, data) ==
  IF i > stop THEN [exc |-> "None", objs |-> h, data |-> data]
  ELSE
    LET Step(f, v) ==
          IF f.size = -1
            THEN [exc |-> "ValueError", objs |-> h, data |-> data]
          ELSE IF v < 0 \/ v >= Pow2(8 * ((f.size + 7) \div 8))
            THEN [exc |-> "OverflowError",
                  objs |-> [h EXCEPT ![fs[i]].value = v], data |-> data]
          ELSE CLCollect(fs, i + 1, stop, [h EXCEPT ![fs[i]].value = v],
                         data \o IntToBytes(v, (f.size + 7) \div 8))
    IN Step(h[fs[i]], IF h[fs[i]].load = None THEN 0 ELSE h[fs[i]].value)

\* Command.update() with self.fields = fs on heap h: all fields in order;
\* self.raw is assigned only when the loop completes.  Result: exception,
\* heap, raw.
update(fs, h) ==
  LET Finish(c) ==
        [exc |-> c.exc, objs |-> c.objs,
         raw |-> IF c.exc = "None" THEN Some(Hex(c.data)) ELSE raw]
  IN Finish(CLCollect(fs, 0, Cardinality(DOMAIN fs) - 1, h, <<>>))

\* One pass of the inner loop of crc16.
CLCrcShift(crc) ==
  IF (crc \div 32768) % 2 = 1 THEN Xor(crc * 2, 4129) ELSE crc * 2

RECURSIVE CLCrcShifts(_, _)
CLCrcShifts(crc, n) ==
  IF n = 0 THEN crc
  ELSE CHOOSE r \in {CLCrcShifts(v, n - 1) : v \in {CLCrcShift(crc)}} : TRUE

\* Command.crc16(data) from byte c (1-based) on: crc ^= byte << 8, eight
\* shifts, then crc &= 0xFFFF.
RECURSIVE CLCrcFrom(_, _, _)
CLCrcFrom(crc, data, c) ==
  IF c > Len(data) THEN crc
  ELSE CHOOSE r \in
         {CLCrcFrom(v, data, c + 1) :
            v \in {CLCrcShifts(Xor(crc, data[c] * 256), 8) % 65536}} : TRUE

\* Mutant of crc16: the register starts at 0x0000.
crc16_init_zero(data) == CLCrcFrom(0, data, 1)

crc16(data) == CLCrcFrom(65535, data, 1)

\* Command.calculate_checksum(start_index, stop_index, target_index).
\* Result: exception and heap afterwards.
calculate_checksum(start_index, stop_index, target_index) ==
  IF start_index < 0 \/ stop_index >= NumFields \/ target_index >= NumFields
    THEN [exc |-> "ValueError", objs |-> objs]
  ELSE
    LET Store(c) ==
          IF c.exc # "None" THEN [exc |-> c.exc, objs |-> c.objs]
          ELSE IF target_index \notin DOMAIN fields
            THEN [exc |-> "KeyError", objs |-> c.objs]
          ELSE [exc |-> "None",
                objs |-> [c.objs EXCEPT ![fields[target_index]] =
                            set_load(@, crc16(c.data))]]
    IN Store(CLCollect(fields, start_index, stop_index, objs, <<>>))

\* Mutant of add_field: next_index is not advanced.
add_field_no_advance(id) ==
  [fields |-> [i \in (DOMAIN fields) \cup {next_index} |->
                 IF i = next_index THEN id ELSE fields[i]],
   next_index |-> next_index]

\* Command.add_field(field): self.fields[self.next_index] = field;
\* self.next_index += 1.
add_field(id) ==
  [fields |-> [i \in (DOMAIN fields) \cup {next_index} |->
                 IF i = next_index THEN id ELSE fields[i]],
   next_index |-> next_index + 1]

\* ------------------------------------------------------------------------
\* Actions
\* ------------------------------------------------------------------------
\* Command(...): no fields, next_index = 0.
Init ==
  /\ cls \in {"Commands", "CommandLoader"}
  /\ objs = <<>>
  /\ fields = [i \in {} |-> 0]
  /\ next_index = 0
  /\ iter_index = -1
  /\ raw = None
  /\ checksums = 0
  /\ added = <<>>
  /\ last = Call("init", <<>>, "None", FALSE, None)
  /\ schema = None
  /\ other = None
  /\ vreg = None
  /\ port = "closed"
  /\ trace = <<>>
  /\ visited = None

\* cmd.add_field(Field(**a)): the Field is constructed, then added; when
\* the constructor raises, add_field is not reached.
AddField ==
  \E a \in CmdFieldArgs :
    /\ cls = "Commands"
    /\ next_index < MaxFields
    /\ LET c == FieldInit(a)
           id == Len(objs) + 1
           r == add_field(id)
       IN IF c.exc = "None"
            THEN /\ objs' = Append(objs, c.f)
                 /\ fields' = r.fields
                 /\ next_index' = r.next_index
                 /\ added' = Append(added, id)
                 /\ last' = Call("add_field", <<a>>, "None", c.logged, Some(id))
            ELSE /\ last' = Call("add_field", <<a>>, c.exc, c.logged, None)
                 /\ UNCHANGED <<objs, fields, next_index, added>>
    /\ UNCHANGED <<ext, cls, iter_index, raw, checksums>>

\* f = Field(**a): a new Field object that belongs to no Command, unless
\* the constructor raises.
NewField ==
  \E a \in FieldArgs :
    /\ cls = "Commands"
    /\ Len(objs) < MaxObjs
    /\ LET r == FieldInit(a)
       IN /\ objs' = IF r.exc = "None" THEN Append(objs, r.f) ELSE objs
          /\ last' = Call("Field", <<a>>, r.exc, r.logged,
                          IF r.exc = "None" THEN Some(Len(objs) + 1) ELSE None)
    /\ UNCHANGED <<ext, cls, fields, next_index, iter_index, raw, checksums, added>>

\* f.set_val(x) on a Field object.
SetVal ==
  \E id \in Ids, x \in Inputs :
    /\ cls = "Commands"
    /\ LET r == set_val(objs[id], x)
       IN /\ objs' = [objs EXCEPT ![id] = r.f]
          /\ last' = Call("set_val", <<id, x>>, r.exc, r.logged, None)
    /\ UNCHANGED <<ext, cls, fields, next_index, iter_index, raw, checksums, added>>

\* f.get_raw() on a Field object.
GetRawField ==
  \E id \in Ids :
    /\ cls = "Commands"
    /\ LET r == FieldRaw(objs[id])
       IN last' = Call("Field.get_raw", <<id>>, r.exc, FALSE, r.bits)
    /\ UNCHANGED <<ext, cls, objs, fields, next_index, iter_index, raw, checksums, added>>

\* f = Field(name, field_dict) of CommandLoader.py, belonging to no Command.
CLNewField ==
  \E a \in CLFieldArgs :
    /\ cls = "CommandLoader"
    /\ Len(objs) < MaxObjs
    /\ objs' = Append(objs, CLFieldInit(a))
    /\ last' = Call("CLField", <<a>>, "None", FALSE, Some(Len(objs) + 1))
    /\ UNCHANGED <<ext, cls, fields, next_index, iter_index, raw, checksums, added>>

\* f.set_load(x) on a Field object of CommandLoader.py.
CLSetLoad ==
  \E id \in Ids, x \in InputNums :
    /\ cls = "CommandLoader"
    /\ objs' = [objs EXCEPT ![id] = set_load(objs[id], x)]
    /\ last' = Call("set_load", <<id, x>>, "None", FALSE, None)
    /\ UNCHANGED <<ext, cls, fields, next_index, iter_index, raw, checksums, added>>

\* cmd.get_field(name=name, index=index): an index alone, a name alone, a
\* name with index 0, or neither.
GetField ==
  \E name \in {None} \cup {Some(n) : n \in Names},
     index \in {None} \cup {Some(i) : i \in -1..MaxFields} :
    /\ cls = "Commands"
    /\ name = None \/ index \in {None, Some(0)}
    /\ LET r == get_field(name, index)
       IN /\ iter_index' = r.it
          /\ last' = Call("get_field", <<name, index>>, r.exc, r.logged, r.ret)
    /\ UNCHANGED <<ext, cls, objs, fields, next_index, raw, checksums, added>>

\* cmd[item]
GetItem ==
  /\ cls = "Commands"
  /\ \/ \E s \in Names :
          LET r == getitem_str(s)
          IN /\ iter_index' = r.it
             /\ last' = Call("getitem_str", <<s>>, r.exc, r.logged, r.ret)
     \/ \E i \in 0..MaxFields :
          LET r == getitem_int(i)
          IN /\ iter_index' = r.it
             /\ last' = Call("getitem_int", <<i>>, r.exc, r.logged, r.ret)
  /\ UNCHANGED <<ext, cls, objs, fields, next_index, raw, checksums, added>>

\* cmd.set_field(name, x): self.get_field(name=name).set_val(x).  When
\* get_field returns None the attribute access raises AttributeError.
SetField ==
  \E n \in Names, x \in CmdInputs :
    /\ cls = "Commands"
    /\ LET g == get_field(Some(n), None)
       IN /\ iter_index' = g.it
          /\ IF g.ret = None
               THEN /\ objs' = objs
                    /\ last' = Call("set_field", <<n, x>>, "AttributeError",
                                    g.logged, None)
               ELSE LET r == set_val(objs[g.ret[1]], x)
                    IN /\ objs' = [objs EXCEPT ![g.ret[1]] = r.f]
                       /\ last' = Call("set_field", <<n, x>>, r.exc,
                                       r.logged, None)
    /\ UNCHANGED <<ext, cls, fields, next_index, raw, checksums, added>>

\* [field for field in cmd]
Iterate ==
  /\ cls = "Commands"
  /\ iter_index' = NumFields
  /\ last' = Call("iterate", <<>>, "None", FALSE, FieldList)
  /\ UNCHANGED <<ext, cls, objs, fields, next_index, raw, checksums, added>>

\* cmd.get_size()
GetSize ==
  /\ cls = "Commands"
  /\ iter_index' = NumFields
  /\ last' = Call("get_size", <<>>, "None", FALSE, Some(get_size))
  /\ UNCHANGED <<ext, cls, objs, fields, next_index, raw, checksums, added>>

\* len(cmd)
GetLen ==
  /\ cls = "Commands"
  /\ last' = Call("len", <<>>, "None", FALSE, Some(CommandLen))
  /\ UNCHANGED <<ext, cls, objs, fields, next_index, iter_index, raw, checksums,
                 added>>

\* cmd.get_raw(start_index, end_index)
GetRaw ==
  \E start_index \in 0..(MaxFields - 1),
     end_index \in {None} \cup {Some(i) : i \in 0..(MaxFields - 1)} :
    /\ cls = "Commands"
    /\ \E r \in {get_raw(start_index, end_index)} :
          /\ iter_index' = r.it
          /\ last' = Call("get_raw", <<start_index, end_index>>, r.exc,
                          FALSE, r.ret)
    /\ UNCHANGED <<ext, cls, objs, fields, next_index, raw, checksums, added>>

\* cmd.crc16_calculate(start_index, stop_index, target_index)
Crc16Calculate ==
  \E start_index \in -1..(MaxFields - 1), stop_index \in 0..(MaxFields - 1),
     target_index \in 0..(MaxFields - 1) :
    /\ cls = "Commands"
    /\ checksums < MaxChecksums
    /\ checksums' = checksums + 1
    /\ \E r \in {crc16_calculate(start_index, stop_index, target_index)} :
          /\ iter_index' = r.it
          /\ objs' = IF r.exc = "None"
                       THEN [objs EXCEPT ![r.id[1]].value = r.value]
                       ELSE objs
          /\ last' = Call("crc16_calculate",
                          <<start_index, stop_index, target_index>>, r.exc,
                          FALSE, IF r.exc = "None" THEN <<0>> ELSE <<>>)
    /\ UNCHANGED <<ext, cls, fields, next_index, raw, added>>

\* cmd.add_field(name, field_dict) of CommandLoader.py: the Field is
\* stored, next_index advanced, then update() is called (and may raise).
CLAddField ==
  \E a \in CLCmdFieldArgs :
    /\ cls = "CommandLoader"
    /\ next_index < MaxFields
    /\ \E r \in {add_field(Len(objs) + 1)} :
         \E u \in {update(r.fields, Append(objs, CLFieldInit(a)))} :
           /\ fields' = r.fields
           /\ next_index' = r.next_index
           /\ objs' = u.objs
           /\ raw' = u.raw
           /\ last' = Call("CL.add_field", <<a>>, u.exc, FALSE, None)
    /\ added' = Append(added, Len(objs) + 1)
    /\ UNCHANGED <<ext, cls, iter_index, checksums>>

\* cmd.set_parameter(name, x): set_load on the first Field named name, then
\* update(); ValueError when no Field has the name.
CLSetParameter ==
  \E n \in Names, x \in CLInputs :
    /\ cls = "CommandLoader"
    /\ \E m \in {CLScan(n)} :
         IF m = -1
           THEN /\ last' = Call("set_parameter", <<n, x>>, "ValueError",
                                FALSE, None)
                /\ UNCHANGED <<objs, raw>>
           ELSE \E u \in {update(fields,
                            [objs EXCEPT ![fields[m]] = set_load(@, x)])} :
                  /\ objs' = u.objs
                  /\ raw' = u.raw
                  /\ last' = Call("set_parameter", <<n, x>>, u.exc, FALSE,
                                  None)
    /\ UNCHANGED <<ext, cls, fields, next_index, iter_index, checksums, added>>

\* cmd.get_parameter(name): the value of the first Field named name;
\* ValueError when no Field has the name.
CLGetParameter ==
  \E n \in Names :
    /\ cls = "CommandLoader"
    /\ \E m \in {CLScan(n)} :
         last' = IF m = -1
                   THEN Call("get_parameter", <<n>>, "ValueError", FALSE, None)
                   ELSE Call("get_parameter", <<n>>, "None", FALSE,
                             Some(objs[fields[m]].value))
    /\ UNCHANGED <<ext, cls, objs, fields, next_index, iter_index, raw, checksums,
                   added>>

\* cmd[item] of CommandLoader.py: the first Field named item; the raise
\* statement formats an undefined variable, so NameError when none matches.
CLGetItem ==
  \E n \in Names :
    /\ cls = "CommandLoader"
    /\ \E m \in {CLScan(n)} :
         last' = IF m = -1
                   THEN Call("CL.getitem", <<n>>, "NameError", FALSE, None)
                   ELSE Call("CL.getitem", <<n>>, "None", FALSE,
                             Some(fields[m]))
    /\ UNCHANGED <<ext, cls, objs, fields, next_index, iter_index, raw, checksums,
                   added>>

\* cmd.get_raw() of CommandLoader.py: update(), then return self.raw.
CLGetRaw ==
  /\ cls = "CommandLoader"
  /\ \E u \in {update(fields, objs)} :
       /\ objs' = u.objs
       /\ raw' = u.raw
       /\ last' = Call("CL.get_raw", <<>>, u.exc, FALSE,
                       IF u.exc = "None" THEN u.raw ELSE None)
  /\ UNCHANGED <<ext, cls, fields, next_index, iter_index, checksums, added>>

\* cmd.calculate_checksum(start_index, stop_index, target_index)
CLCalculateChecksum ==
  \E start_index \in -1..(MaxFields - 1), stop_index \in 0..(MaxFields - 1),
     target_index \in -1..(MaxFields - 1) :
    /\ cls = "CommandLoader"
    /\ checksums < MaxChecksums
    /\ checksums' = checksums + 1
    /\ \E r \in {calculate_checksum(start_index, stop_index, target_index)} :
         /\ objs' = r.objs
         /\ last' = Call("calculate_checksum",
                         <<start_index, stop_index, target_index>>, r.exc,
                         FALSE, None)
    /\ UNCHANGED <<ext, cls, fields, next_index, iter_index, raw, added>>

\* cmd.crc16_calculate(start_index, stop_index, target_index) called a
\* second time, with the arguments of the call that has just returned.
Crc16Recalculate ==
  /\ cls = "Commands"
  /\ last.op = "crc16_calculate" /\ last.exc = "None"
  /\ \E r \in {crc16_calculate(last.args[1], last.args[2], last.args[3])} :
        /\ iter_index' = r.it
        /\ objs' = IF r.exc = "None"
                     THEN [objs EXCEPT ![r.id[1]].value = r.value]
                     ELSE objs
        /\ last' = Call("crc16_calculate_again", last.args, r.exc, FALSE,
                        IF r.exc = "None" THEN <<0>> ELSE <<>>)
  /\ UNCHANGED <<ext, cls, fields, next_index, raw, checksums, added>>

\* cmd.calculate_checksum(start_index, stop_index, target_index) of
\* CommandLoader.py called a second time, with the arguments of the call
\* that has just returned.
CLRecalculateChecksum ==
  /\ cls = "CommandLoader"
  /\ last.op = "calculate_checksum" /\ last.exc = "None"
  /\ \E r \in {calculate_checksum(last.args[1], last.args[2], last.args[3])} :
       /\ objs' = r.objs
       /\ last' = Call("calculate_checksum_again", last.args, r.exc, FALSE,
                       None)
  /\ UNCHANGED <<ext, cls, fields, next_index, iter_index, raw, checksums, added>>

\* A Command and the operations on it.
Next ==
  \/ AddField
  \/ GetField
  \/ GetItem
  \/ SetField
  \/ Iterate
  \/ GetSize
  \/ GetLen
  \/ GetRaw
  \/ Crc16Calculate
  \/ CLAddField
  \/ CLSetParameter
  \/ CLGetParameter
  \/ CLGetItem
  \/ CLGetRaw
  \/ CLCalculateChecksum

Spec == Init /\ [][Next]_vars

\* The Field class on its own: Field objects that belong to no Command.
NextField ==
  \/ NewField
  \/ SetVal
  \/ GetRawField
  \/ CLNewField
  \/ CLSetLoad

SpecField == Init /\ [][NextField]_vars

\* A Command under add_field, set and checksum calls, where a checksum call
\* that returned may be repeated once.
NextChecksum ==
  \/ AddField
  \/ SetField
  \/ Crc16Calculate
  \/ Crc16Recalculate
  \/ CLAddField
  \/ CLSetParameter
  \/ CLCalculateChecksum
  \/ CLRecalculateChecksum

SpecChecksum == Init /\ [][NextChecksum]_vars

\* Byte values and byte sequences handed to the static method crc16.
CrcBytes == {0, 1, 36, 44, 128, 170, 255}

RECURSIVE SeqsUpTo(_, _)
SeqsUpTo(S, n) ==
  IF n = 0 THEN {<<>>}
  ELSE LET shorter == SeqsUpTo(S, n - 1)
       IN shorter \cup {Append(q, b) : q \in shorter, b \in S}

CrcInputs == SeqsUpTo(CrcBytes, MaxCrcLen)

\* An empty CommandLoader Command and a byte sequence about to be handed
\* to crc16.
InitCrc ==
  /\ cls = "CommandLoader"
  /\ objs = <<>>
  /\ fields = [i \in {} |-> 0]
  /\ next_index = 0
  /\ iter_index = -1
  /\ raw = None
  /\ checksums = 0
  /\ added = <<>>
  /\ \E data \in CrcInputs : last = Call("input", <<data>>, "None", FALSE, None)
  /\ schema = None
  /\ other = None
  /\ vreg = None
  /\ port = "closed"
  /\ trace = <<>>
  /\ visited = None

\* Command.crc16(data) on the byte sequence chosen.
CLCrc16 ==
  /\ cls = "CommandLoader"
  /\ last.op = "input"
  /\ last' = Call("crc16", last.args, "None", FALSE, Some(crc16(last.args[1])))
  /\ UNCHANGED <<ext, cls, objs, fields, next_index, iter_index, raw, checksums, added>>

NextCrc == CLCrc16

SpecCrc == InitCrc /\ [][NextCrc]_vars

\* ------------------------------------------------------------------------
\* catlitter/CommandLoader.py: CommandLoader and CommandBuilder
\* ------------------------------------------------------------------------
\* A field dictionary of the YAML file with the keys load and size.
Fd(load, size) == [load |-> load, min |-> None, max |-> None, size |-> size]

\* PROTOCOL_FIELDS as in the CMD_BOARD_INFO example of Commands.py: only the
\* start character has a load list; the header checksum is 8 bits wide.
ProtocolPlain ==
  [START_CHARACTER |-> Fd(Some(<<36>>), 8),
   PAYLOAD_SIZE |-> Fd(None, 8),
   HEADER_CHECKSUM |-> Fd(None, 8),
   PAYLOAD_CHECKSUM |-> Fd(None, 16)]

\* PROTOCOL_FIELDS in which every framing field has a load list and both
\* checksums are 16 bits wide.
ProtocolLoaded ==
  [START_CHARACTER |-> Fd(Some(<<36>>), 8),
   PAYLOAD_SIZE |-> Fd(Some(<<2>>), 8),
   HEADER_CHECKSUM |-> Fd(Some(<<0>>), 16),
   PAYLOAD_CHECKSUM |-> Fd(Some(<<0>>), 16)]

\* COMMAND_FIELDS: a dict in file order; each command has a COMMAND_ID
\* field dictionary and a REQUEST dict (in file order) of k = 1, 2 and 0
\* field dictionaries.
CommandFields ==
  << [name |-> "CMD_BOARD_INFO", COMMAND_ID |-> Fd(Some(<<86>>), 8),
      REQUEST |-> << [name |-> "A", dict |-> Fd(None, 16)] >>],
     [name |-> "CMD_REALTIME", COMMAND_ID |-> Fd(Some(<<69>>), 8),
      REQUEST |-> << [name |-> "B", dict |-> Fd(Some(<<36>>), 8)],
                     [name |-> "A", dict |-> Fd(None, 16)] >>],
     [name |-> "CMD_RESET", COMMAND_ID |-> Fd(Some(<<114>>), 8),
      REQUEST |-> << >>] >>

\* The YAML files loaded.
Schemas ==
  { [PROTOCOL_FIELDS |-> ProtocolPlain, COMMAND_FIELDS |-> CommandFields],
    [PROTOCOL_FIELDS |-> ProtocolLoaded, COMMAND_FIELDS |-> CommandFields] }

\* Command names passed by callers; the last is in no schema.
CmdNames == {"CMD_BOARD_INFO", "CMD_REALTIME", "CMD_RESET", "CMD_NONE"}

\* Position of the command named name in COMMAND_FIELDS, 0 when absent
\* (self.command_fields[name] then raises KeyError).
FindCommand(s, name) ==
  IF \E i \in 1..Len(s.COMMAND_FIELDS) : s.COMMAND_FIELDS[i].name = name
    THEN CHOOSE i \in 1..Len(s.COMMAND_FIELDS) : s.COMMAND_FIELDS[i].name = name
    ELSE 0

\* Mutant of BuildOrder: the payload checksum is added before the request
\* fields.
BuildOrderChecksumFirst(s, cd) ==
  << [name |-> "START_CHARACTER", dict |-> s.PROTOCOL_FIELDS.START_CHARACTER],
     [name |-> "COMMAND_ID", dict |-> cd.COMMAND_ID],
     [name |-> "PAYLOAD_SIZE", dict |-> s.PROTOCOL_FIELDS.PAYLOAD_SIZE],
     [name |-> "HEADER_CHECKSUM", dict |-> s.PROTOCOL_FIELDS.HEADER_CHECKSUM],
     [name |-> "PAYLOAD_CHECKSUM",
      dict |-> s.PROTOCOL_FIELDS.PAYLOAD_CHECKSUM] >>
  \o cd.REQUEST

\* The add_field calls of build_command for the command dict cd, in order.
BuildOrder(s, cd) ==
  << [name |-> "START_CHARACTER", dict |-> s.PROTOCOL_FIELDS.START_CHARACTER],
     [name |-> "COMMAND_ID", dict |-> cd.COMMAND_ID],
     [name |-> "PAYLOAD_SIZE", dict |-> s.PROTOCOL_FIELDS.PAYLOAD_SIZE],
     [name |-> "HEADER_CHECKSUM", dict |-> s.PROTOCOL_FIELDS.HEADER_CHECKSUM] >>
  \o cd.REQUEST
  \o << [name |-> "PAYLOAD_CHECKSUM",
         dict |-> s.PROTOCOL_FIELDS.PAYLOAD_CHECKSUM] >>

\* Mutant of NewId: the Field at position i is one object shared by every
\* Command.
NewIdShared(h, i) == i + 1

\* Identity of the Field object that Field(name, field_dict) constructs for
\* position i on heap h: a new object.
NewId(h, i) == Len(h) + 1

\* The add_field calls pairs[i], ... on a new Command whose fields are fs so
\* far, on heap h: Field(name, field_dict) is constructed and stored at the
\* next index, then update() runs and may raise.  Result: exception, fields,
\* heap, raw.
RECURSIVE BuildAdd(_, _, _, _, _)
BuildAdd(pairs, i, fs, h, rw) ==
  IF i > Len(pairs) THEN [exc |-> "None", fields |-> fs, objs |-> h, raw |-> rw]
  ELSE
    LET Added(id, u) ==
          IF u.exc # "None"
            THEN [exc |-> u.exc, fields |-> fs, objs |-> h, raw |-> rw]
            ELSE BuildAdd(pairs, i + 1,
                          [j \in 0..(i - 1) |-> IF j = i - 1 THEN id ELSE fs[j]],
                          u.objs, u.raw)
        Stored(id, h1) ==
          Added(id, update([j \in 0..(i - 1) |-> IF j = i - 1 THEN id ELSE fs[j]],
                           h1))
    IN Stored(NewId(h, i - 1),
              Append(h, CLFieldInit([name |-> pairs[i].name,
                                     load |-> pairs[i].dict.load,
                                     min |-> pairs[i].dict.min,
                                     max |-> pairs[i].dict.max,
                                     size |-> pairs[i].dict.size])))

\* Command.calculate_checksum(start_index, stop_index, target_index) on
\* the Command whose fields are fs, on heap h.  Result: exception, heap.
ChecksumOn(fs, h, start_index, stop_index, target_index) ==
  IF \/ start_index < 0
     \/ stop_index >= Cardinality(DOMAIN fs)
     \/ target_index >= Cardinality(DOMAIN fs)
    THEN [exc |-> "ValueError", objs |-> h]
  ELSE
    LET Store(c) ==
          IF c.exc # "None" THEN [exc |-> c.exc, objs |-> c.objs]
          ELSE IF target_index \notin DOMAIN fs
            THEN [exc |-> "KeyError", objs |-> c.objs]
          ELSE [exc |-> "None",
                objs |-> [c.objs EXCEPT ![fs[target_index]] =
                            set_load(@, crc16(c.data))]]
    IN Store(CLCollect(fs, start_index, stop_index, h, <<>>))

\* CommandBuilder.build_command(cmd_name) with the loaded data s on heap h:
\* KeyError for a name that COMMAND_FIELDS lacks; otherwise the add_field
\* calls in order, then calculate_checksum(0, 2, 3).  Result: exception,
\* and the fields, heap and raw of the Command returned.
build_command(s, cmd_name, h) ==
  IF FindCommand(s, cmd_name) = 0
    THEN [exc |-> "KeyError", fields |-> [i \in {} |-> 0], objs |-> h,
          raw |-> None]
  ELSE
    LET Checked(b, c) ==
          [exc |-> c.exc, fields |-> b.fields, objs |-> c.objs, raw |-> b.raw]
        Built(b) ==
          IF b.exc # "None" THEN b
          ELSE Checked(b, ChecksumOn(b.fields, b.objs, 0, 2, 3))
    IN Built(BuildAdd(BuildOrder(s, s.COMMAND_FIELDS[FindCommand(s, cmd_name)]),
                      1, [i \in {} |-> 0], h, None))

\* The Command object as the caller holds it.
ThisCommand ==
  [fields |-> fields, next_index |-> next_index, raw |-> raw,
   iter_index |-> iter_index]

\* A CommandBuilder (or the CommandLoader of Commands.py) over one of the
\* YAML files; no Command has been built.
InitBuild ==
  /\ cls \in {"Commands", "CommandLoader"}
  /\ objs = <<>>
  /\ fields = [i \in {} |-> 0]
  /\ next_index = 0
  /\ iter_index = -1
  /\ raw = None
  /\ checksums = 0
  /\ added = <<>>
  /\ last = Call("init", <<>>, "None", FALSE, None)
  /\ schema \in {Some(s) : s \in Schemas}
  /\ other = None
  /\ vreg = None
  /\ port = "closed"
  /\ trace = <<>>
  /\ visited = None

\* cmd = builder.build_command(cmd_name): the caller keeps the Command built
\* before, if any, as the other one.  At most two Commands are built.
BuildCommand ==
  \E cmd_name \in CmdNames :
    /\ cls = "CommandLoader"
    /\ schema # None
    /\ other = None
    /\ \E r \in {build_command(schema[1], cmd_name, objs)} :
         /\ last' = Call("build_command", <<cmd_name>>, r.exc, FALSE,
                         IF r.exc = "None" THEN Some(r.fields) ELSE None)
         /\ IF r.exc = "None"
              THEN /\ objs' = r.objs
                   /\ fields' = r.fields
                   /\ next_index' = Cardinality(DOMAIN r.fields)
                   /\ raw' = r.raw
                   /\ iter_index' = -1
                   /\ added' = added \o [j \in 1..Cardinality(DOMAIN r.fields)
                                           |-> r.fields[j - 1]]
                   /\ other' = IF NumFields > 0 THEN Some(ThisCommand)
                                                ELSE other
              ELSE UNCHANGED <<objs, fields, next_index, raw, iter_index,
                               added, other>>
    /\ UNCHANGED <<cls, checksums, schema, vreg, port, trace, visited>>

\* The caller turns to the other Command it holds: the following calls are
\* made on that one.
UseOther ==
  /\ cls = "CommandLoader"
  /\ other # None
  /\ fields' = other[1].fields
  /\ next_index' = other[1].next_index
  /\ raw' = other[1].raw
  /\ iter_index' = other[1].iter_index
  /\ other' = Some(ThisCommand)
  /\ last' = Call("use_other", <<>>, "None", FALSE, None)
  /\ UNCHANGED <<cls, objs, checksums, added, schema, vreg, port, trace,
                 visited>>

\* loader.get_command_dict(name).  catlitter/CommandLoader.py indexes the
\* dict (KeyError when absent); Commands.py logs an error and returns None
\* when the name is absent.
GetCommandDict ==
  \E name \in CmdNames :
    /\ schema # None
    /\ \E c \in {FindCommand(schema[1], name)} :
         last' = IF c # 0
                   THEN Call("get_command_dict", <<name>>, "None", FALSE,
                             Some(schema[1].COMMAND_FIELDS[c]))
                 ELSE IF cls = "CommandLoader"
                   THEN Call("get_command_dict", <<name>>, "KeyError", FALSE,
                             None)
                 ELSE Call("get_command_dict", <<name>>, "None", TRUE, None)
    /\ UNCHANGED <<ext, cls, objs, fields, next_index, iter_index, raw,
                   checksums, added>>

\* loader.get_request_fields(name) of catlitter/CommandLoader.py (KeyError
\* when absent) and loader.get_request_dict(name) of Commands.py, which
\* subscripts the None that get_command_dict returned (TypeError).
GetRequestDict ==
  \E name \in CmdNames :
    /\ schema # None
    /\ \E c \in {FindCommand(schema[1], name)} :
         last' = IF c # 0
                   THEN Call("get_request_dict", <<name>>, "None", FALSE,
                             Some(schema[1].COMMAND_FIELDS[c].REQUEST))
                 ELSE IF cls = "CommandLoader"
                   THEN Call("get_request_dict", <<name>>, "KeyError", FALSE,
                             None)
                 ELSE Call("get_request_dict", <<name>>, "TypeError", TRUE,
                           None)
    /\ UNCHANGED <<ext, cls, objs, fields, next_index, iter_index, raw,
                   checksums, added>>

\* Index triples of the header and payload checksums passed by callers.
ChecksumTriples == {<<0, 2, 3>>, <<1, 4, 5>>}

\* cmd.calculate_checksum(start_index, stop_index, target_index) on a
\* Command that build_command returned.
CLChecksumBuilt ==
  \E t \in ChecksumTriples :
    /\ cls = "CommandLoader"
    /\ NumFields > 0
    /\ \E r \in {ChecksumOn(fields, objs, t[1], t[2], t[3])} :
         /\ objs' = r.objs
         /\ last' = Call("calculate_checksum", t, r.exc, FALSE, None)
    /\ UNCHANGED <<ext, cls, fields, next_index, iter_index, raw, checksums,
                   added>>

\* Commands built from the schema, and the set, serialize and checksum
\* calls made on them.
NextBuild ==
  \/ BuildCommand
  \/ UseOther
  \/ CLSetParameter
  \/ CLGetRaw
  \/ CLChecksumBuilt

SpecBuild == InitBuild /\ [][NextBuild]_vars

\* The loader's lookups and the builder, by command name.
NextLoader ==
  \/ BuildCommand
  \/ GetCommandDict
  \/ GetRequestDict

SpecLoader == InitBuild /\ [][NextLoader]_vars

\* ------------------------------------------------------------------------
\* Properties of Field
\* ------------------------------------------------------------------------
\* The Field a set_val / set_load call was made on, and the value passed.
LastField == objs[last.args[1]]
LastNum == last.args[2].num

\* C1: for a Field with a non-empty load list, set_val(x) returns and stores
\* x exactly when x is in the list, and raises for every x outside it.
C1_SetValAcceptsExactlyLoad ==
  (last.op = "set_val" /\ TruthyList(LastField.load) /\ last.args[2].isint) =>
     /\ InList(LastNum, LastField.load) =>
          (last.exc = "None" /\ LastField.value = LastNum)
     /\ ~InList(LastNum, LastField.load) => last.exc # "None"

\* C2: for a Field with both bounds min = m and max = M, zero bounds
\* included, set_val(x) returns and stores x exactly when m <= x <= M.
C2_SetValAcceptsExactlyRange ==
  (last.op = "set_val" /\ LastField.min # None /\ LastField.max # None
     /\ last.args[2].isint) =>
     ((last.exc = "None" /\ LastField.value = LastNum)
        <=> (LastField.min[1] <= LastNum /\ LastNum <= LastField.max[1]))

\* The conditions under which a set is to be rejected: value outside the
\* load list, outside the bounds, or not an int.
Rejected(f, x) ==
  \/ TruthyList(f.load) /\ ~InList(x.num, f.load)
  \/ f.min # None /\ x.num < f.min[1]
  \/ f.max # None /\ x.num > f.max[1]
  \/ ~x.isint

\* C3: a set_val that is to be rejected leaves the Field's value as it was.
C3_RejectedSetKeepsValue ==
  [][\A id \in Ids :
       (last'.op = "set_val" /\ last'.args[1] = id
          /\ Rejected(objs[id], last'.args[2]))
         => objs'[id].value = objs[id].value]_vars

\* C5: a Field constructed without an explicit initial value holds load[0]
\* when a load list is given and 0 otherwise (both Field classes).
C5_DefaultValue ==
  /\ (last.op = "Field" /\ last.exc = "None" /\ last.args[1].value = None) =>
       objs[last.ret[1]].value =
         (IF TruthyList(last.args[1].load) THEN last.args[1].load[1][1] ELSE 0)
  /\ last.op = "CLField" =>
       objs[last.ret[1]].value =
         (IF TruthyList(last.args[1].load) THEN last.args[1].load[1][1] ELSE 0)

\* C5 witness: a Field was just constructed from a load list and without an
\* explicit value.
C5_Witness ==
  /\ last.op = "Field" /\ last.exc = "None"
  /\ last.args[1].value = None
  /\ TruthyList(last.args[1].load)

\* C6: Field.get_raw() returns `size` bits that read, most significant bit
\* first, as the value when 0 <= value < 2^size, and raises otherwise.
C6_RawIsValueInSizeBits ==
  last.op = "Field.get_raw" =>
    LET f == objs[last.args[1]]
    IN IF 0 <= f.value /\ f.value < Pow2(f.size)
         THEN /\ last.exc = "None"
              /\ Len(last.ret) = f.size
              /\ \A i \in 1..Len(last.ret) : last.ret[i] \in {0, 1}
              /\ BitsToUint(last.ret) = f.value
         ELSE last.exc # "None"

\* C6 witness: get_raw returned the bits of the 13-bit Field holding 0x56.
C6_Witness ==
  /\ last.op = "Field.get_raw" /\ last.exc = "None"
  /\ objs[last.args[1]].value = 86
  /\ objs[last.args[1]].size = 13

\* ------------------------------------------------------------------------
\* Properties of Command
\* ------------------------------------------------------------------------
\* C4: every field of a Commands.Command holds a value v with
\* 0 <= v < 2^size.
C4_ValuesFitSize ==
  cls = "Commands" =>
    \A i \in DOMAIN fields :
      0 <= objs[fields[i]].value
        /\ objs[fields[i]].value < Pow2(objs[fields[i]].size)

\* C7: after n add_field calls the Command has length n, its indices are
\* 0..n-1, the Field at index i is the (i+1)-th one added, and no operation
\* other than add_field changes the number or the order of the fields.
C7_FieldOrder ==
  /\ [](/\ next_index = Len(added)
        /\ NumFields = Len(added)
        /\ cls = "Commands" => CommandLen = Len(added)
        /\ DOMAIN fields = 0..(Len(added) - 1)
        /\ \A i \in DOMAIN fields : fields[i] = added[i + 1])
  /\ [][last'.op \notin {"add_field", "CL.add_field"}
          => (fields' = fields /\ next_index' = next_index)]_vars

\* C7 witness: a checksum was computed on a Command of two or more fields.
C7_Witness ==
  /\ Len(added) >= 2
  /\ last.op = "crc16_calculate"
  /\ last.exc = "None"

\* Some Field of the Command is named n.
HasName(n) == \E i \in DOMAIN fields : NameAt(i) = n

\* The lowest index of a Field named n.
Lowest(n) ==
  CHOOSE i \in DOMAIN fields :
    NameAt(i) = n /\ \A j \in DOMAIN fields : NameAt(j) = n => i <= j

\* The Fields named n apart from the one at the lowest index keep their
\* values over the step.
OthersKeepValue(n) ==
  \A j \in DOMAIN fields :
    (NameAt(j) = n /\ j # Lowest(n)) =>
      objs'[fields[j]].value = objs[fields[j]].value

\* C8: lookups and sets by name resolve to the lowest-index Field of that
\* name, and a set by name leaves the values of the other Fields of that
\* name unchanged (both Command classes).
C8_NameResolvesToFirst ==
  [][/\ (last'.op = "get_field" /\ ~Truthy(last'.args[2])
           /\ TruthyName(last'.args[1]) /\ HasName(last'.args[1][1]))
          => last'.ret = Some(fields[Lowest(last'.args[1][1])])
     /\ (last'.op \in {"getitem_str", "CL.getitem"} /\ HasName(last'.args[1]))
          => last'.ret = Some(fields[Lowest(last'.args[1])])
     /\ (last'.op = "get_parameter" /\ HasName(last'.args[1]))
          => last'.ret = Some(objs[fields[Lowest(last'.args[1])]].value)
     /\ (last'.op \in {"set_field", "set_parameter"} /\ HasName(last'.args[1]))
          => OthersKeepValue(last'.args[1])
     /\ (last'.op = "set_field" /\ HasName(last'.args[1])
           /\ last'.exc = "None")
          => objs'[fields[Lowest(last'.args[1])]].value = last'.args[2].num
    ]_vars

\* C8 restricted to Commands.Command.
C8_CommandsOnly ==
  [][cls = "Commands" =>
      /\ (last'.op = "get_field" /\ ~Truthy(last'.args[2])
            /\ TruthyName(last'.args[1]) /\ HasName(last'.args[1][1]))
           => last'.ret = Some(fields[Lowest(last'.args[1][1])])
      /\ (last'.op = "getitem_str" /\ HasName(last'.args[1]))
           => last'.ret = Some(fields[Lowest(last'.args[1])])
      /\ (last'.op = "set_field" /\ HasName(last'.args[1]))
           => OthersKeepValue(last'.args[1])
      /\ (last'.op = "set_field" /\ HasName(last'.args[1])
            /\ last'.exc = "None")
           => objs'[fields[Lowest(last'.args[1])]].value = last'.args[2].num
    ]_vars

\* C9: for 0 <= i < len(command), get_field(index=i), with or without a
\* name argument, and command[i] return the (i+1)-th Field added.
C9_IndexLookup ==
  /\ (last.op = "get_field" /\ last.args[2] # None
        /\ 0 <= last.args[2][1] /\ last.args[2][1] < CommandLen)
       => (last.exc = "None" /\ last.ret = Some(added[last.args[2][1] + 1]))
  /\ (last.op = "getitem_int"
        /\ 0 <= last.args[1] /\ last.args[1] < CommandLen)
       => (last.exc = "None" /\ last.ret = Some(added[last.args[1] + 1]))

\* C10: a lookup by a name no Field carries, or by an index outside
\* [0, len), raises; a set by such a name raises and changes no Field.
C10_AbsentLookupFails ==
  [][/\ (last'.op = "get_field" /\ ~Truthy(last'.args[2])
           /\ TruthyName(last'.args[1]) /\ ~HasName(last'.args[1][1]))
          => last'.exc # "None"
     /\ (last'.op = "get_field" /\ last'.args[2] # None
           /\ (last'.args[2][1] < 0 \/ last'.args[2][1] >= CommandLen))
          => last'.exc # "None"
     /\ (last'.op \in {"getitem_str", "CL.getitem", "get_parameter"}
           /\ ~HasName(last'.args[1]))
          => last'.exc # "None"
     /\ (last'.op \in {"set_field", "set_parameter"}
           /\ ~HasName(last'.args[1]))
          => (last'.exc # "None" /\ objs' = objs)
    ]_vars

\* ------------------------------------------------------------------------
\* Properties of serialization
\* ------------------------------------------------------------------------
\* The Field at index i holds a value that fits its size.
Fits(i) ==
  0 <= objs[fields[i]].value /\ objs[fields[i]].value < Pow2(objs[fields[i]].size)

\* The bits of the Fields at indices s..e in positional order, each as
\* `size` bits msb-first, with nothing between them.
RangeBits(s, e) ==
  Concat([k \in 1..(e - s + 1) |->
            ToBits(objs[fields[s + k - 1]].value, objs[fields[s + k - 1]].size)])

\* C11: for 0 <= start <= end < len(command), end = 0 included, and values
\* that fit, get_raw(start, end) returns the bytes packed from the bits of
\* exactly the Fields start..end.
C11_SerializeRange ==
  (last.op = "get_raw" /\ last.args[2] # None
     /\ 0 <= last.args[1] /\ last.args[1] <= last.args[2][1]
     /\ last.args[2][1] < CommandLen
     /\ \A i \in last.args[1]..last.args[2][1] : Fits(i))
    => (last.exc = "None"
          /\ last.ret = ToBytes(RangeBits(last.args[1], last.args[2][1])))

\* ceil(n / 8)
CeilBytes(n) == (n + 7) \div 8

\* C12: for a non-empty Command whose values fit their sizes, get_raw()
\* returns ceil(size_bits / 8) bytes, size_bits being the sum of the Field
\* sizes, and the unused low bits of the last byte are zero (both Command
\* classes; CommandLoader's raw holds two hex digits per byte).
C12_SerializedLength ==
  /\ (last.op = "get_raw" /\ last.args = <<0, None>> /\ CommandLen > 0
        /\ \A i \in DOMAIN fields : Fits(i))
       => /\ last.exc = "None"
          /\ Len(last.ret) = CeilBytes(get_size)
          /\ last.ret[Len(last.ret)] % Pow2(8 * Len(last.ret) - get_size) = 0
  /\ (last.op = "CL.get_raw" /\ NumFields > 0
        /\ \A i \in DOMAIN fields : objs[fields[i]].size > 0 /\ Fits(i))
       => /\ last.exc = "None"
          /\ Len(last.ret[1]) = 2 * CeilBytes(get_size)

\* C12 restricted to Commands.Command.
C12_CommandsOnly ==
  (last.op = "get_raw" /\ last.args = <<0, None>> /\ CommandLen > 0
     /\ \A i \in DOMAIN fields : Fits(i))
    => /\ last.exc = "None"
       /\ Len(last.ret) = CeilBytes(get_size)
       /\ last.ret[Len(last.ret)] % Pow2(8 * Len(last.ret) - get_size) = 0

\* C13: get_raw on a Command with no fields raises (both Command classes).
C13_EmptyCommandFails ==
  (last.op \in {"get_raw", "CL.get_raw"} /\ NumFields = 0) => last.exc # "None"

\* The bit stream of a byte sequence, each byte msb-first.
BytesToBits(bytes) ==
  [k \in 1..(8 * Len(bytes)) |->
     ToBits(bytes[(k + 7) \div 8], 8)[((k - 1) % 8) + 1]]

\* Number of bits of the Fields before index i.
BitOffset(i) == SumSeq([k \in 1..i |-> objs[fields[k - 1]].size])

\* deserialize(bytes, layout) for the Field at index i: the `size` bits that
\* follow those of the Fields before it, read msb-first.
Deserialize(bytes, i) ==
  BitsToUint(SubSeq(BytesToBits(bytes), BitOffset(i) + 1,
                    BitOffset(i) + objs[fields[i]].size))

ValidTriple(a, n) ==
  /\ 0 <= a[1] /\ a[1] <= a[2] /\ a[2] < n
  /\ 0 <= a[3] /\ a[3] < n

\* The sum of the sizes of the Fields at indices s..e.
RangeSize(s, e) == SumSeq([k \in 1..(e - s + 1) |-> objs[fields[s + k - 1]].size])

\* C15: a checksum call with start < 0, start > stop, stop >= len or a
\* target outside [0, len) raises and changes no Field value (both Command
\* classes).
C15_InvalidRangeFails ==
  [][(last'.op \in {"crc16_calculate", "calculate_checksum"}
        /\ ~ValidTriple(last'.args, NumFields))
       => (last'.exc # "None" /\ objs' = objs)]_vars

\* C16: a checksum call on a valid index triple whose range start..stop has
\* a total size that is not a multiple of 8 raises and writes no Field
\* (both Command classes).
C16_UnalignedRangeFails ==
  [][(last'.op \in {"crc16_calculate", "calculate_checksum"}
        /\ ValidTriple(last'.args, NumFields)
        /\ RangeSize(last'.args[1], last'.args[2]) % 8 # 0)
       => (last'.exc # "None" /\ objs' = objs)]_vars

\* C16 restricted to Commands.Command.
C16_CommandsOnly ==
  [][(last'.op = "crc16_calculate"
        /\ ValidTriple(last'.args, NumFields)
        /\ RangeSize(last'.args[1], last'.args[2]) % 8 # 0)
       => (last'.exc # "None" /\ objs' = objs)]_vars

\* C17: a checksum call on a valid index triple that returns normally
\* leaves the value of every Field other than the one at index target as
\* it was (both Command classes).
C17_OnlyTargetChanges ==
  [][(last'.op \in {"crc16_calculate", "calculate_checksum"}
        /\ last'.exc = "None"
        /\ ValidTriple(last'.args, NumFields))
       => \A i \in DOMAIN fields :
            i # last'.args[3]
              => objs'[fields[i]].value = objs[fields[i]].value]_vars

\* C18: a checksum call on a valid index triple, repeated at once with the
\* same arguments, returns normally again and leaves every Field value as
\* the first call left it (both Command classes).
C18_ChecksumIdempotent ==
  [][(last'.op \in {"crc16_calculate_again", "calculate_checksum_again"}
        /\ ValidTriple(last'.args, NumFields))
       => (last'.exc = "None" /\ objs' = objs)]_vars

\* ------------------------------------------------------------------------
\* Properties of the CRC functions
\* ------------------------------------------------------------------------
\* The reference of CRC-16 variant A on a 16-bit register.  FlipBit
\* complements bit k of v.  One step for data bit d: shift left by one
\* within 16 bits, then XOR with 0x8005 (bits 15, 2 and 0) when d differs
\* from the old bit 15.
FlipBit(v, k) == IF (v \div (2 ^ k)) % 2 = 1 THEN v - 2 ^ k ELSE v + 2 ^ k

RefStepA(reg, d) ==
  LET shifted == (reg % 32768) * 2
  IN IF d # reg \div 32768
     THEN FlipBit(FlipBit(FlipBit(shifted, 0), 2), 15)
     ELSE shifted

\* Data bit n (1-based) of the byte sequence: bytes in order, within a byte
\* the least significant bit first.
RefDataBit(data, n) == (data[(n + 7) \div 8] \div (2 ^ ((n - 1) % 8))) % 2

\* The register after the first n data bits, starting from 0x0000.
RECURSIVE RefRegisterA(_, _)
RefRegisterA(data, n) ==
  IF n = 0 THEN 0
  ELSE RefStepA(RefRegisterA(data, n - 1), RefDataBit(data, n))

RefCrcA(data) == RefRegisterA(data, 8 * Len(data))

\* A 16-bit number with its two bytes exchanged.
Swap16(v) == (v % 256) * 256 + (v \div 256)

\* The value held after the step by the Field that a crc16_calculate call
\* with the arguments a writes (the first one named as the target is).
StoredCrc(a) == objs'[fields[Lowest(NameAt(a[3]))]].value

\* A crc16_calculate call on a valid index triple has returned normally in
\* this step.
CrcStored ==
  /\ last'.op = "crc16_calculate" /\ last'.exc = "None"
  /\ ValidTriple(last'.args, NumFields)

RefStepB(reg, d) ==
  LET shifted == (reg % 32768) * 2
  IN IF d # reg \div 32768
     THEN FlipBit(FlipBit(FlipBit(shifted, 0), 5), 12)
     ELSE shifted

\* Data bit n (1-based) of the byte sequence: bytes in order, within a byte
\* the most significant bit first.
RefDataBitMsb(data, n) ==
  (data[(n + 7) \div 8] \div (2 ^ (7 - ((n - 1) % 8)))) % 2

\* The register after the first n data bits, starting from 0xFFFF.
RECURSIVE RefRegisterB(_, _)
RefRegisterB(data, n) ==
  IF n = 0 THEN 65535
  ELSE RefStepB(RefRegisterB(data, n - 1), RefDataBitMsb(data, n))

RefCrcB(data) == RefRegisterB(data, 8 * Len(data))

\* C20: crc16 returns, for every byte sequence, a value in 0..0xFFFF equal
\* to the reference MSB-first CRC with initial register 0xFFFF and
\* polynomial 0x1021 (whose register never leaves 16 bits), and 0xFFFF for
\* the empty sequence.
C20_Crc16IsReference ==
  last.op = "crc16" =>
    /\ last.ret # None
    /\ last.ret[1] \in 0..65535
    /\ last.ret[1] = RefCrcB(last.args[1])
    /\ (last.args[1] = <<>> => last.ret[1] = 65535)

\* C20 witness: crc16 has been applied to the bytes 01 2C 00, where the
\* register passes 16 bits inside the inner loop; the result is 0xB827.
C20_Witness ==
  /\ last.op = "crc16"
  /\ last.args = << <<1, 44, 0>> >>
  /\ last.ret = Some(47143)
  /\ CLCrcShifts(Xor(65535, 256), 8) > 65535

\* ------------------------------------------------------------------------
\* catlitter/VirtualRegister.py: VirtualRegister
\* ------------------------------------------------------------------------
\* An element of command['bytes']: an int (param = None, the int is v) or a
\* dict with the keys param_name and values.
ByteEntry(v) == [param |-> None, values |-> {}, v |-> v]
ParamEntry(p, vals) == [param |-> Some(p), values |-> vals, v |-> 0]

\* isinstance(byte, dict)
IsDict(e) == e.param # None

\* command['bytes'] of the command handed to VirtualRegister: two fixed
\* bytes, two parameter bytes and the terminator.
RegisterTemplate ==
  << ByteEntry(129), ByteEntry(1), ParamEntry("zoom", {2, 3}),
     ParamEntry("focus", {2, 3, 4}), ByteEntry(255) >>

\* Arguments of set_parameter and set_byte used by callers: "iris" is no
\* parameter of the command, 9 is among no parameter's values, -6 and 5
\* are beyond the five bytes on either side.
ParamNames == {"zoom", "focus", "iris"}
ParamValues == {2, 3, 9}
ByteIndexes == {-6, -1, 0, 2, 5}
ByteValues == {0, 7}

\* VirtualRegister._extract_parameters(): the values of each parameter
\* named by a dict among the bytes (a later dict of the same name replaces
\* an earlier one).
extract_parameters(bytes) ==
  [p \in {bytes[i].param[1] : i \in {j \in 1..Len(bytes) : IsDict(bytes[j])}} |->
     bytes[CHOOSE i \in 1..Len(bytes) :
             /\ IsDict(bytes[i]) /\ bytes[i].param[1] = p
             /\ \A j \in (i + 1)..Len(bytes) :
                  ~(IsDict(bytes[j]) /\ bytes[j].param[1] = p)].values]

\* VirtualRegister(command): self.bytes is command['bytes'] itself;
\* self.parameters is extracted once.
VirtualRegister(bytes) ==
  [bytes |-> bytes, parameters |-> extract_parameters(bytes)]

\* VirtualRegister.set_byte(index, value).  Result: exception and bytes.
\* index < len(self.bytes) also admits negative indexes, which count from
\* the end of the list (IndexError from the list below -len).
set_byte(r, index, value) ==
  IF index < Len(r.bytes)
    THEN IF PyIndex(index, Len(r.bytes)) = 0
           THEN [exc |-> "IndexError", bytes |-> r.bytes]
         ELSE IF IsDict(r.bytes[PyIndex(index, Len(r.bytes))])
           THEN [exc |-> "ValueError", bytes |-> r.bytes]
         ELSE [exc |-> "None",
               bytes |-> [r.bytes EXCEPT ![PyIndex(index, Len(r.bytes))] =
                            ByteEntry(value)]]
    ELSE [exc |-> "IndexError", bytes |-> r.bytes]

\* VirtualRegister.get_bytes(): a dict reads as 0x00.
get_bytes(r) ==
  [i \in 1..Len(r.bytes) |-> IF IsDict(r.bytes[i]) THEN 0 ELSE r.bytes[i].v]

\* VirtualRegister.set_parameter(param, value).  Result: exception and
\* bytes.  The first dict named param is replaced by the value; when the
\* loop finds no such dict the call returns without a change.
set_parameter(r, param, value) ==
  IF param \in DOMAIN r.parameters
    THEN IF value \in r.parameters[param]
           THEN LET At(i) == IsDict(r.bytes[i]) /\ r.bytes[i].param[1] = param
                    Hits == {i \in 1..Len(r.bytes) : At(i)}
                IN IF Hits = {}
                     THEN [exc |-> "None", bytes |-> r.bytes]
                     ELSE [exc |-> "None",
                           bytes |-> [r.bytes EXCEPT
                                        ![CHOOSE i \in Hits :
                                            \A j \in Hits : i <= j] =
                                          ByteEntry(value)]]
           ELSE [exc |-> "ValueError", bytes |-> r.bytes]
    ELSE [exc |-> "ValueError", bytes |-> r.bytes]

\* A VirtualRegister made from the command; no Command object is involved.
InitRegister ==
  /\ cls = "CommandLoader"
  /\ objs = <<>>
  /\ fields = [i \in {} |-> 0]
  /\ next_index = 0
  /\ iter_index = -1
  /\ raw = None
  /\ checksums = 0
  /\ added = <<>>
  /\ last = Call("init", <<>>, "None", FALSE, None)
  /\ schema = None
  /\ other = None
  /\ vreg = Some(VirtualRegister(RegisterTemplate))
  /\ port = "closed"
  /\ trace = <<>>
  /\ visited = None

\* register.set_byte(index, value)
VRSetByte ==
  \E index \in ByteIndexes, value \in ByteValues :
    /\ vreg # None
    /\ \E r \in {set_byte(vreg[1], index, value)} :
         /\ vreg' = Some([vreg[1] EXCEPT !.bytes = r.bytes])
         /\ last' = Call("set_byte", <<index, value>>, r.exc, FALSE, None)
    /\ UNCHANGED <<cls, objs, fields, next_index, iter_index, raw, checksums,
                   added, schema, other, port, trace, visited>>

\* register.set_parameter(param, value)
VRSetParameter ==
  \E param \in ParamNames, value \in ParamValues :
    /\ vreg # None
    /\ \E r \in {set_parameter(vreg[1], param, value)} :
         /\ vreg' = Some([vreg[1] EXCEPT !.bytes = r.bytes])
         /\ last' = Call("vr.set_parameter", <<param, value>>, r.exc, FALSE,
                         None)
    /\ UNCHANGED <<cls, objs, fields, next_index, iter_index, raw, checksums,
                   added, schema, other, port, trace, visited>>

\* register.get_bytes()
VRGetBytes ==
  /\ vreg # None
  /\ last' = Call("get_bytes", <<>>, "None", FALSE, Some(get_bytes(vreg[1])))
  /\ UNCHANGED <<ext, cls, objs, fields, next_index, iter_index, raw,
                 checksums, added>>

\* A VirtualRegister and the calls made on it.
NextRegister ==
  \/ VRSetByte
  \/ VRSetParameter
  \/ VRGetBytes

SpecRegister == InitRegister /\ [][NextRegister]_vars

\* ------------------------------------------------------------------------
\* main.py and dev/GimbalHandler.py: DeviceHandler.execute_command
\* ------------------------------------------------------------------------
\* Command names passed to execute_command: the loader has the first only.
DeviceCommands == {"CAM_Zoom", "CAM_None"}

\* CommandLoader.get_command(name) of main.py: the command's bytes, or None
\* when no command has the name.
get_command(name) ==
  IF name = "CAM_Zoom" THEN Some(RegisterTemplate) ELSE None

\* What the serial port does during one call: every operation works, or
\* open, write or read raises SerialException.
PortFailures == {"none", "open", "write", "read"}

\* Keyword arguments of GimbalHandler.execute_command: none, or one
\* parameter with a value.
Kwargs ==
  {<<>>} \cup {<<[param |-> p, value |-> v]>> : p \in ParamNames, v \in ParamValues}

\* The statements from communication_interface.open() to close() of
\* execute_command, where the operation named by fail raises.  Result:
\* exception, the interface operations called, the port afterwards.
Exchange(fail) ==
  IF fail = "open"
    THEN [exc |-> "SerialException", trace |-> <<"open">>, port |-> port]
  ELSE IF fail = "write"
    THEN [exc |-> "SerialException", trace |-> <<"open", "write">>,
          port |-> "open"]
  ELSE IF fail = "read"
    THEN [exc |-> "SerialException", trace |-> <<"open", "write", "read">>,
          port |-> "open"]
  ELSE [exc |-> "None", trace |-> <<"open", "write", "read", "close">>,
        port |-> "closed"]

\* self.registers[command_name]: made on the first call for the command.
RegisterOf(command) == IF vreg = None THEN VirtualRegister(command[1]) ELSE vreg[1]

\* A DeviceHandler with its loader and a closed interface; no register.
InitDevice ==
  /\ cls = "CommandLoader"
  /\ objs = <<>>
  /\ fields = [i \in {} |-> 0]
  /\ next_index = 0
  /\ iter_index = -1
  /\ raw = None
  /\ checksums = 0
  /\ added = <<>>
  /\ last = Call("init", <<>>, "None", FALSE, None)
  /\ schema = None
  /\ other = None
  /\ vreg = None
  /\ port = "closed"
  /\ trace = <<>>
  /\ visited = None

\* handler.execute_command(command_name) of main.py.
ExecuteCommand ==
  \E command_name \in DeviceCommands, fail \in PortFailures :
    /\ \E command \in {get_command(command_name)} :
         IF command # None
           THEN \E x \in {Exchange(fail)} :
                  /\ vreg' = Some(RegisterOf(command))
                  /\ port' = x.port
                  /\ trace' = x.trace
                  /\ last' = Call("execute_command", <<command_name, <<>> >>,
                                  x.exc, FALSE, None)
           ELSE /\ trace' = <<>>
                /\ last' = Call("execute_command", <<command_name, <<>> >>,
                                "None", TRUE, None)
                /\ UNCHANGED <<vreg, port>>
    /\ UNCHANGED <<cls, objs, fields, next_index, iter_index, raw, checksums,
                   added, schema, other, visited>>

\* handler.execute_command(command_name, **kwargs) of GimbalHandler: a
\* keyword that names a parameter of the register is passed to
\* set_parameter, which may raise before the interface is touched.
GimbalExecuteCommand ==
  \E command_name \in DeviceCommands, kwargs \in Kwargs, fail \in PortFailures :
    /\ \E command \in {get_command(command_name)} :
         IF command # None
           THEN \E r \in {RegisterOf(command)} :
                \E s \in {IF kwargs # <<>> /\ kwargs[1].param \in DOMAIN r.parameters
                            THEN set_parameter(r, kwargs[1].param, kwargs[1].value)
                            ELSE [exc |-> "None", bytes |-> r.bytes]} :
                  IF s.exc # "None"
                    THEN /\ vreg' = Some(r)
                         /\ trace' = <<>>
                         /\ last' = Call("execute_command",
                                         <<command_name, kwargs>>, s.exc,
                                         FALSE, None)
                         /\ UNCHANGED port
                    ELSE \E x \in {Exchange(fail)} :
                           /\ vreg' = Some([r EXCEPT !.bytes = s.bytes])
                           /\ port' = x.port
                           /\ trace' = x.trace
                           /\ last' = Call("execute_command",
                                           <<command_name, kwargs>>, x.exc,
                                           FALSE, None)
           ELSE /\ trace' = <<>>
                /\ last' = Call("execute_command", <<command_name, kwargs>>,
                                "None", TRUE, None)
                /\ UNCHANGED <<vreg, port>>
    /\ UNCHANGED <<cls, objs, fields, next_index, iter_index, raw, checksums,
                   added, schema, other, visited>>

\* A device handler executing commands.
NextDevice ==
  \/ ExecuteCommand
  \/ GimbalExecuteCommand

SpecDevice == InitDevice /\ [][NextDevice]_vars

\* ------------------------------------------------------------------------
\* Commands.py and catlitter/CommandLoader.py: for field in cmd
\* ------------------------------------------------------------------------
\* `for field in cmd:` begins: iter(cmd) sets _iter_index to 0 and returns
\* the Command itself as the iterator, and the first __next__ follows at
\* once: it yields fields[0], or ends the loop of a Command with no Field.
LoopStart ==
  /\ visited = None
  /\ IF NumFields > 0
       THEN /\ visited' = Some(<<0>>)
            /\ iter_index' = 1
            /\ last' = Call("next", <<>>, "None", FALSE, Some(fields[0]))
       ELSE /\ visited' = None
            /\ iter_index' = 0
            /\ last' = Call("for", <<>>, "None", FALSE, Some(<<>>))
  /\ UNCHANGED <<cls, objs, fields, next_index, raw, checksums, added, schema,
                 other, vreg, port, trace>>

\* The loop asks for the next Field: __next__ yields fields[_iter_index]
\* and advances _iter_index, or raises StopIteration, which ends the loop.
\* Between two such steps the loop body runs: any call on the Command.
LoopNext ==
  /\ visited # None
  /\ IF iter_index < NumFields
       THEN /\ Len(visited[1]) < MaxVisits
            /\ visited' = Some(Append(visited[1], iter_index))
            /\ iter_index' = iter_index + 1
            /\ last' = Call("next", <<>>, "None", FALSE, Some(fields[iter_index]))
       ELSE /\ visited' = None
            /\ iter_index' = iter_index
            /\ last' = Call("for", <<>>, "None", FALSE, visited)
  /\ UNCHANGED <<cls, objs, fields, next_index, raw, checksums, added, schema,
                 other, vreg, port, trace>>

\* A Command that is built up and iterated over, with calls on it inside
\* the loop body.
NextLoop ==
  \/ AddField
  \/ CLAddField
  \/ LoopStart
  \/ LoopNext
  \/ GetField
  \/ SetField
  \/ GetSize
  \/ GetRaw
  \/ CLSetParameter
  \/ CLGetRaw

SpecLoop == Init /\ [][NextLoop]_vars

\* ------------------------------------------------------------------------
\* Properties of the CommandBuilder and the loaders
\* ------------------------------------------------------------------------
\* build_command has just returned a Command.
Built == last.op = "build_command" /\ last.exc = "None"

\* The command dict of the schema for a name that the schema has.
CommandDict(name) ==
  schema[1].COMMAND_FIELDS[FindCommand(schema[1], name)]

\* The names of the Fields of the Command, by position.
FieldNames == [j \in 1..NumFields |-> NameAt(j - 1)]

\* The names of the declared request fields of a command, in schema order.
RequestNames(name) ==
  [j \in 1..Len(CommandDict(name).REQUEST) |-> CommandDict(name).REQUEST[j].name]

\* C21: for every command name of the schema, build_command returns a
\* Command whose Fields are START_CHARACTER, COMMAND_ID, PAYLOAD_SIZE,
\* HEADER_CHECKSUM, the k request fields in schema order, PAYLOAD_CHECKSUM:
\* k + 5 Fields.
C21_BuildOrder ==
  (last.op = "build_command" /\ FindCommand(schema[1], last.args[1]) # 0) =>
    /\ last.exc = "None"
    /\ NumFields = Len(CommandDict(last.args[1]).REQUEST) + 5
    /\ FieldNames =
         <<"START_CHARACTER", "COMMAND_ID", "PAYLOAD_SIZE", "HEADER_CHECKSUM">>
         \o RequestNames(last.args[1]) \o <<"PAYLOAD_CHECKSUM">>

\* C21 witness: the command with two request fields has been built; the
\* header checksum of the bytes 24 45 00 is in place.
C21_Witness ==
  /\ Built
  /\ last.args = <<"CMD_REALTIME">>
  /\ NumFields = 7
  /\ NameAt(4) = "B" /\ NameAt(5) = "A"
  /\ objs[fields[3]].value = 25763

\* Bytes that a Field of the given size takes in the serialization.
FieldBytes(size) == (size + 7) \div 8

RECURSIVE RequestBytes(_, _)
RequestBytes(req, j) ==
  IF j > Len(req) THEN 0
  ELSE FieldBytes(req[j].dict.size) + RequestBytes(req, j + 1)

\* C23: after build_command, PAYLOAD_SIZE holds the total byte length of
\* the declared request fields, and COMMAND_ID holds the identifier that
\* the schema declares for the command.
C23_PayloadSizeAndId ==
  Built =>
    /\ objs[fields[2]].value = RequestBytes(CommandDict(last.args[1]).REQUEST, 1)
    /\ objs[fields[1]].value = CommandDict(last.args[1]).COMMAND_ID.load[1][1]

\* C23, the part that the code satisfies: COMMAND_ID holds the schema's
\* identifier.
C23_CommandIdOnly ==
  Built =>
    objs[fields[1]].value = CommandDict(last.args[1]).COMMAND_ID.load[1][1]

\* C25: build_command and the loader lookups, called with a name that the
\* schema lacks, raise an error and return nothing.
C25_UnknownNameFails ==
  (/\ last.op \in {"build_command", "get_command_dict", "get_request_dict"}
   /\ FindCommand(schema[1], last.args[1]) = 0)
    => (last.exc # "None" /\ last.ret = None)

\* C25 restricted to catlitter/CommandLoader.py, where it holds.
C25_CatlitterOnly ==
  (/\ cls = "CommandLoader"
   /\ last.op \in {"build_command", "get_command_dict", "get_request_dict"}
   /\ FindCommand(schema[1], last.args[1]) = 0)
    => (last.exc = "KeyError" /\ last.ret = None)

\* The bytes of Fields 0..2 as serialized on heap h (a Field without a
\* load list is serialized as 0), each Field in whole bytes.
HeaderBytes(h) ==
  LET Bytes(i) ==
        IntToBytes(IF h[fields[i]].load = None THEN 0 ELSE h[fields[i]].value,
                   FieldBytes(h[fields[i]].size))
  IN Bytes(0) \o Bytes(1) \o Bytes(2)

\* HEADER_CHECKSUM holds the CRC of the framing header on heap h.
HeaderChecksumHeld(h) == h[fields[3]].value = crc16(HeaderBytes(h))

\* The number that the hex digits d[from..to] spell.
RECURSIVE HexNumber(_, _, _)
HexNumber(digits, from, to) ==
  IF to < from THEN 0
  ELSE 16 * HexNumber(digits, from, to - 1) + digits[to]

\* The value that the hex string emits in the header-checksum position:
\* after the 3 header bytes, as many bytes as the Field is wide.
EmittedHeaderChecksum(digits, h) ==
  HexNumber(digits, 7, 6 + 2 * FieldBytes(h[fields[3]].size))

\* C22: after build_command the HEADER_CHECKSUM Field holds the CRC of the
\* framing header, and a get_raw() on a Command whose HEADER_CHECKSUM holds
\* that CRC returns a serialization that emits this value in the
\* header-checksum position and leaves it in the Field.
C22_HeaderChecksumKept ==
  [][/\ (last'.op = "build_command" /\ last'.exc = "None")
          => objs'[fields'[3]].value = crc16(HeaderBytes(objs)')
     /\ (last'.op = "CL.get_raw" /\ NumFields >= 5 /\ HeaderChecksumHeld(objs))
          => /\ last'.exc = "None"
             /\ objs'[fields[3]].value = objs[fields[3]].value
             /\ EmittedHeaderChecksum(raw'[1], objs) = objs[fields[3]].value]_vars

\* C22, the part that the code satisfies: build_command leaves the CRC of
\* the framing header in the HEADER_CHECKSUM Field.
C22_BuildStoresChecksum ==
  Built => HeaderChecksumHeld(objs)

\* The Field identities of a Command.
FieldIds(fs) == {fs[i] : i \in DOMAIN fs}

\* C24: no step changes the loaded schema; a Command that has been built
\* keeps its Fields when another one is built; the two Commands have no
\* Field object in common; and a set, serialize or checksum call on one
\* Command changes neither a Field nor the raw string of the other.
C24_NoSharedState ==
  [][/\ schema' = schema
     /\ (last'.op = "build_command")
          => \A i \in DOMAIN fields : objs'[fields[i]] = objs[fields[i]]
     /\ (other' # None)
          => FieldIds(fields') \cap FieldIds(other'[1].fields) = {}
     /\ (other # None /\ last'.op \notin {"build_command", "use_other"})
          => /\ other' = other
             /\ \A i \in DOMAIN other[1].fields :
                  objs'[other[1].fields[i]] = objs[other[1].fields[i]]]_vars

\* C24 witness: two Commands built from CMD_REALTIME; set_parameter('B', 1)
\* has returned on one, get_parameter('B') on the other is still 36.
C24_Witness ==
  /\ other # None
  /\ last.op = "set_parameter" /\ last.exc = "None"
  /\ NumFields = 7 /\ Cardinality(DOMAIN other[1].fields) = 7
  /\ objs[fields[4]].name = "B" /\ objs[fields[4]].value = 1
  /\ objs[other[1].fields[4]].name = "B"
  /\ objs[other[1].fields[4]].value = 36

\* ------------------------------------------------------------------------
\* Properties of set and get by name
\* ------------------------------------------------------------------------
\* A set by name has just returned without an error: set_parameter of
\* CommandLoader.py, or set_field of Commands.py with nothing logged.
SetReturned ==
  /\ last.exc = "None"
  /\ \/ last.op = "set_parameter"
     \/ last.op = "set_field" /\ ~last.logged

\* The value passed to the set that has just returned.
SetValue == IF last.op = "set_field" THEN last.args[2].num ELSE last.args[2]

\* The Field that get by name resolves the name of that set to.
SetTarget == objs[fields[CLScan(last.args[1])]]

\* C26: after a successful set(name, v), get(name) returns v, whether or
\* not the Field declares a load list.
C26_SetValueKept ==
  SetReturned => SetTarget.value = SetValue

\* C26 restricted to Commands.py and to the Fields of CommandLoader.py
\* that declare a load list, where it holds.
C26_LoadedOnly ==
  (SetReturned /\ (cls = "Commands" \/ SetTarget.load # None))
    => SetTarget.value = SetValue

\* ------------------------------------------------------------------------
\* Properties of the VirtualRegister
\* ------------------------------------------------------------------------
\* The byte position (1-based) that the command declares for a parameter.
ParamPosition(param) ==
  CHOOSE i \in 1..Len(RegisterTemplate) :
    IsDict(RegisterTemplate[i]) /\ RegisterTemplate[i].param[1] = param

\* The positions that the command declares as parameters.
ParamPositions == {i \in 1..Len(RegisterTemplate) : IsDict(RegisterTemplate[i])}

\* C27: after a set_parameter(param, value) that returned, get_bytes()
\* holds value at the parameter's byte position.
C27_LastSetParameterWins ==
  (last.op = "vr.set_parameter" /\ last.exc = "None")
    => get_bytes(vreg[1])[ParamPosition(last.args[1])] = last.args[2]

\* C27 restricted to the first set_parameter of a parameter, where it
\* holds: the step replaces the dict by the value.
C27_FirstSetOnly ==
  [][(/\ last'.op = "vr.set_parameter" /\ last'.exc = "None"
      /\ IsDict(vreg[1].bytes[ParamPosition(last'.args[1])]))
       => get_bytes(vreg[1])'[ParamPosition(last'.args[1])] = last'.args[2]]_vars

\* C28: set_byte on a position that the command declares as a parameter
\* raises ValueError, set_byte with an index outside 0..len-1 raises
\* IndexError, and both leave the bytes unchanged.
C28_SetByteSparesParameters ==
  [][(last'.op = "set_byte") =>
       /\ (last'.args[1] + 1 \in ParamPositions)
            => (last'.exc = "ValueError" /\ vreg' = vreg)
       /\ (last'.args[1] < 0 \/ last'.args[1] >= Len(vreg[1].bytes))
            => (last'.exc = "IndexError" /\ vreg' = vreg)]_vars

\* C28 restricted to parameter positions that still hold their dict and to
\* indexes at or beyond len, where it holds.
C28_UnsetParametersOnly ==
  [][(last'.op = "set_byte") =>
       /\ (/\ last'.args[1] + 1 \in ParamPositions
           /\ IsDict(vreg[1].bytes[last'.args[1] + 1]))
            => (last'.exc = "ValueError" /\ vreg' = vreg)
       /\ (last'.args[1] >= Len(vreg[1].bytes))
            => (last'.exc = "IndexError" /\ vreg' = vreg)]_vars

\* ------------------------------------------------------------------------
\* Properties of DeviceHandler.execute_command
\* ------------------------------------------------------------------------
\* p is an initial part of q.
IsPrefix(p, q) == Len(p) <= Len(q) /\ p = SubSeq(q, 1, Len(p))

\* The call was made with an unknown command name, or set_parameter
\* rejected a keyword value.
NothingToSend ==
  \/ get_command(last.args[1]) = None
  \/ last.exc = "ValueError"

\* C29: when an execute_command call ends the interface is closed, whether
\* the call returned or raised; the interface operations of the call are an
\* initial part of open, write, read, close; and a call with an unknown
\* command name or a rejected parameter value performs none.
C29_ClosedAfterCall ==
  (last.op = "execute_command") =>
    /\ port = "closed"
    /\ IsPrefix(trace, <<"open", "write", "read", "close">>)
    /\ NothingToSend => trace = <<>>

\* C29, the part that the code satisfies: the order of the operations, and
\* none when there is nothing to send.
C29_OrderOnly ==
  (last.op = "execute_command") =>
    /\ IsPrefix(trace, <<"open", "write", "read", "close">>)
    /\ NothingToSend => trace = <<>>
    /\ last.exc = "None" /\ ~NothingToSend => port = "closed"

\* ------------------------------------------------------------------------
\* Properties of the iteration over a Command
\* ------------------------------------------------------------------------
\* The positions 0, 1, ..., n - 1 in order.
Positions(n) == [j \in 1..n |-> j - 1]

\* C30: a for loop over a Command yields the positions in order, each
\* once, whatever is called on the Command inside the loop body, and when
\* it ends it has yielded every position.
C30_LoopVisitsEachOnce ==
  /\ visited # None => visited[1] = Positions(Len(visited[1]))
  /\ last.op = "for" => last.ret[1] = Positions(NumFields)

\* C30 restricted to the Command of catlitter/CommandLoader.py, whose
\* methods iterate self.fields.values(); there it holds.
C30_CatlitterOnly ==
  cls = "CommandLoader" =>
    /\ visited # None => visited[1] = Positions(Len(visited[1]))
    /\ last.op = "for" => last.ret[1] = Positions(NumFields)

====
